---- MODULE Spec2Model ----
(***************************************************************************)
(* State-machine model of hairstyle_analyzer/ui/streamlit_app.py: the      *)
(* batch operation process_images, the template choice screen              *)
(* display_template_choices, the result views and the staged main().       *)
(***************************************************************************)
EXTENDS Integers, Sequences, FiniteSets, TLC

\* ------------------------------------------------------------------ bounds
MaxFiles == 3      \* most image paths handed to a direct process_images call
MaxUpload == 2     \* most files in the uploader of a session
NStyles == 2       \* size of the template catalogue (one best template per style)
MaxResults == 2    \* most results handed to a direct display_template_choices call

\* ------------------------------------------------------------- data model
None == 0          \* Python's None for a template / an unbound local name
Templates == 1..NStyles

\* What the processor does for one image path.  "badpath" is a list element
\* that is neither a str nor a Path: `path_obj.name` raises for it.
Outcomes == {"ok", "raise", "none", "badpath"}

\* The alternative_templates of a result whose selected_template is s: a list
\* of s - 1 other templates (the processor's template matching is outside this
\* module; the lists have the shape of the unit tests' sample results).
Alternatives(s) == [j \in 1..(s - 1) |-> ((s + j - 1) % NStyles) + 1]

\* The ProcessResult that processor.process_single_image hands back for an
\* image that succeeds (lines 227-230), shaped as the unit tests' sample results.
ProcessSingleImage(img) ==
    [image_name |-> img.name,
     selected_template |-> img.style,
     alternative_templates |-> Alternatives(img.style),
     user_selected_template |-> None,
     style_analysis |-> <<"style", img.name>>,
     attribute_analysis |-> <<"attribute", img.name>>,
     selected_stylist |-> <<"stylist", img.name>>,
     selected_coupon |-> <<"coupon", img.name>>]

\* Python's None where a ProcessResult is expected (a falsy result).
NoResult ==
    [image_name |-> None, selected_template |-> None,
     alternative_templates |-> <<>>, user_selected_template |-> None,
     style_analysis |-> None, attribute_analysis |-> None,
     selected_stylist |-> None, selected_coupon |-> None]
Truthy(r) == r # NoResult

\* One element of image_paths: the file name it carries and what the
\* processor will do with it.
PathOf(name, outcome, style) == [name |-> name, outcome |-> outcome, style |-> style]

PathKinds(outs) ==
    {<<"ok", s>> : s \in 1..NStyles} \cup {<<o, 1>> : o \in outs \ {"ok"}}

\* All path lists of length n whose element p is named p (styleimg_<p>).
PathLists(n, outs) ==
    {[p \in 1..n |-> PathOf(p, k[p][1], k[p][2])] : k \in [1..n -> PathKinds(outs)]}

\* Python dict helpers (a dict is a function on its key set).
Get(d, k, default) == IF k \in DOMAIN d THEN d[k] ELSE default
Put(d, k, v) == [x \in (DOMAIN d) \cup {k} |-> IF x = k THEN v ELSE d[x]]
EmptyDict == [x \in {} |-> 0]

VARIABLES
    uploaded,                     \* the file_uploader widget: Seq of BOOLEAN (file is a valid image)
    processor,                    \* st.session_state["processor"]: "None" or "P"
    results,                      \* st.session_state["results"]
    stages,                       \* st.session_state["processing_stages"]
    template_choices,             \* st.session_state["template_choices"]
    user_selections,              \* st.session_state["user_selections"]
    confirm_template_selections,  \* st.session_state['confirm_template_selections']
    progress,                     \* st.session_state["progress"]
    pc,                           \* position of the running script / process_images coroutine
    image_paths, i, acc, image_name, result,   \* locals of process_images
    caller,                       \* who awaits process_images: "main" or "unit"
    returned,                     \* value process_images (or the function called directly) returned
    view,                         \* what the last script run rendered
    rerun,                        \* a script run is pending (first run, or st.rerun())
    raised,                       \* exception that escaped the last handler call
    last_call,                    \* widget values of the last display_template_choices call
    confirmed,                    \* the confirm button has been pressed in this session
    session,                      \* st.session_state as a dict of keys, for init_session_state
    argument                      \* the result list passed to display_results called directly

vars == <<uploaded, processor, results, stages, template_choices, user_selections,
          confirm_template_selections, progress, pc, image_paths, i, acc,
          image_name, result, caller, returned, view, rerun, raised, last_call,
          confirmed, session, argument>>

sessionChoiceVars == <<template_choices, user_selections, confirm_template_selections,
                       last_call, confirmed, raised, session, argument>>
localVars == <<image_paths, i, acc, image_name, result>>

\* ---------------------------------------------------------- session state
Stages(p, t, r) ==
    [present |-> TRUE, processing_done |-> p, template_selection_done |-> t,
     results_display_done |-> r]
NoStages ==
    [present |-> FALSE, processing_done |-> FALSE, template_selection_done |-> FALSE,
     results_display_done |-> FALSE]
\* processing_stages.get(key, default) on get_session_value(..., {})
StageGet(st, key, default) == IF st.present THEN st[key] ELSE default

Detail(kind, name) == [kind |-> kind, image |-> name]

\* init_session_state's progress dict (no "stage_details" key yet)
InitProgress ==
    [current |-> 0, total |-> 0, message |-> <<"", 0>>, start_time |-> FALSE,
     complete |-> FALSE, stage_details |-> Detail("absent", None)]

\* What a script run renders: the screen, the summary table rows, the detail
\* templates, the download buttons with the result list handed to the exporters
\* and the rows they write, and whether a count of excluded images is shown
\* (no statement of the module renders one).
NoView == [screen |-> "none", table |-> <<>>, details |-> <<>>, export |-> <<>>,
           buttons |-> FALSE, handed |-> <<>>, excluded_shown |-> FALSE]
\* The radio widgets of one script run: under the real widget (mock = FALSE) the
\* radio of image `changed` returns `value` and every other radio returns its
\* `index` argument; a patched st.radio (mock = TRUE) returns `value` for all.
Widget(mock, changed, value) == [mock |-> mock, changed |-> changed, value |-> value]
NoWidget == Widget(FALSE, None, 0)
\* The last display_template_choices call: its widget values, and whether it
\* was a completed confirmation repeating the completed confirmation before it.
Call(button, w, repeated) ==
    [called |-> TRUE, button |-> button, widget |-> w, repeated |-> repeated]
NoCall == [called |-> FALSE, button |-> FALSE, widget |-> NoWidget, repeated |-> FALSE]

\* Mutant: main() marks the selection stage done as well and asks for no rerun.
Return_skipSelection(who, ret, prog) ==
    /\ returned' = ret
    /\ IF who = "main"
       THEN /\ results' = ret
            /\ stages' = Stages(TRUE, TRUE, FALSE)
            /\ progress' = [prog EXCEPT !.complete = TRUE, !.message = <<"done", 0>>]
            /\ rerun' = FALSE
            /\ pc' = "idle"
       ELSE /\ progress' = prog
            /\ pc' = "returned"
            /\ UNCHANGED <<results, stages, rerun>>

\* ------------------------------------------------------- process_images
\* The value handed back to whoever awaits process_images.  Under main()
\* the script continues with lines 1650-1668: store the results, mark the
\* processing stage done, flag the progress complete and request a rerun.
Return(who, ret, prog) ==
    /\ returned' = ret
    /\ IF who = "main"
       THEN /\ results' = ret
            /\ stages' = Stages(TRUE, FALSE, FALSE)
            /\ progress' = [prog EXCEPT !.complete = TRUE, !.message = <<"done", 0>>]
            /\ rerun' = TRUE
            /\ pc' = "idle"
       ELSE /\ progress' = prog
            /\ pc' = "returned"
            /\ UNCHANGED <<results, stages, rerun>>

\* Mutant: the progress reset comes before the empty-list check, and an empty
\* batch is flagged complete.
process_images_enter_resetFirst(who, proc, paths) ==
    \E created \in (IF proc = "None" THEN BOOLEAN ELSE {TRUE}) :
        LET p == IF proc = "None" /\ ~created THEN "None" ELSE "P"
            fresh == [current |-> 0, total |-> Len(paths),
                      message |-> <<"init", 0>>, start_time |-> TRUE,
                      complete |-> FALSE,
                      stage_details |-> Detail("prepare", None)]
        IN
        /\ caller' = who
        /\ image_paths' = paths
        /\ acc' = <<>>
        /\ image_name' = None
        /\ result' = NoResult
        /\ i' = 0
        /\ processor' = p
        /\ IF p = "None"
           THEN Return(who, <<>>, progress)
           ELSE IF paths = <<>>
           THEN Return(who, <<>>, [fresh EXCEPT !.complete = TRUE])
           ELSE /\ progress' = fresh
                /\ pc' = "begin"
                /\ returned' = <<>>
                /\ UNCHANGED <<results, stages, rerun>>

\* Lines 150-192: the processor check, the empty-list check and the progress
\* reset.  `created` is the outcome of create_processor when it is tried.
process_images_enter(who, proc, paths) ==
    \E created \in (IF proc = "None" THEN BOOLEAN ELSE {TRUE}) :
        LET p == IF proc = "None" /\ ~created THEN "None" ELSE "P" IN
        /\ caller' = who
        /\ image_paths' = paths
        /\ acc' = <<>>
        /\ image_name' = None
        /\ result' = NoResult
        /\ i' = 0
        /\ processor' = p
        /\ IF p = "None" \/ paths = <<>>
           THEN Return(who, <<>>, progress)
           ELSE /\ progress' = [current |-> 0, total |-> Len(paths),
                                message |-> <<"init", 0>>, start_time |-> TRUE,
                                complete |-> FALSE,
                                stage_details |-> Detail("prepare", None)]
                /\ pc' = "begin"
                /\ returned' = <<>>
                /\ UNCHANGED <<results, stages, rerun>>

\* Lines 249-265 (the per-image handler), entered with the name the local
\* image_name holds at that moment.  An unbound image_name raises inside the
\* handler, which lands in the outer handler, lines 276-290.
ImageHandler(prog, name) ==
    IF name = None
    THEN /\ progress' = [prog EXCEPT !.message = <<"error", 0>>,
                                     !.stage_details = Detail("abort", None)]
         /\ pc' = "abort"
    ELSE /\ progress' = [prog EXCEPT !.stage_details = Detail("error", name)]
         /\ pc' = "skip"

\* Lines 199-222 of iteration i (0-based), up to the first sleep.
process_images_begin ==
    /\ pc = "begin"
    /\ LET img == image_paths[i + 1]
           prog == [progress EXCEPT !.current = i, !.message = <<"image", i + 1>>]
       IN IF img.outcome = "badpath"
          THEN /\ ImageHandler(prog, image_name)
               /\ UNCHANGED image_name
          ELSE /\ image_name' = img.name
               /\ progress' = [prog EXCEPT !.stage_details = Detail("stage", img.name)]
               /\ pc' = "call"
    /\ UNCHANGED <<uploaded, processor, results, stages, sessionChoiceVars,
                   image_paths, i, acc, result, caller, returned, view, rerun>>

\* Lines 224-240: the processor call, up to the second sleep.
process_images_call ==
    /\ pc = "call"
    /\ LET img == image_paths[i + 1] IN
       IF img.outcome = "raise"
       THEN /\ ImageHandler(progress, image_name)
            /\ UNCHANGED result
       ELSE /\ result' = IF img.outcome = "ok" THEN ProcessSingleImage(img) ELSE NoResult
            /\ progress' = [progress EXCEPT
                               !.stage_details = Detail("finished", image_name)]
            /\ pc' = "append"
    /\ UNCHANGED <<uploaded, processor, results, stages, sessionChoiceVars,
                   image_paths, i, acc, image_name, caller, returned, view, rerun>>

\* Mutant: the result is put in front of the list instead of at its end.
AppendResult_prepend(rs, r) == IF Truthy(r) THEN <<r>> \o rs ELSE rs

\* Lines 243-247: a truthy result is appended to the result list.
AppendResult(rs, r) == IF Truthy(r) THEN Append(rs, r) ELSE rs

\* The end of an iteration: the next image, or lines 267-274.
Advance(rs) ==
    IF i + 1 < Len(image_paths)
    THEN /\ i' = i + 1
         /\ pc' = "begin"
         /\ UNCHANGED <<progress, returned, results, stages, rerun>>
    ELSE /\ i' = i
         /\ Return(caller, rs,
                   [progress EXCEPT !.current = progress.total,
                                    !.message = <<"done", 0>>,
                                    !.complete = TRUE,
                                    !.stage_details = Detail("all_done", None)])

process_images_append ==
    /\ pc = "append"
    /\ acc' = AppendResult(acc, result)
    /\ Advance(acc')
    /\ UNCHANGED <<uploaded, processor, sessionChoiceVars, image_paths, image_name,
                   result, caller, view>>

\* Line 265: continue after a handled per-image error.
process_images_skip ==
    /\ pc = "skip"
    /\ Advance(acc)
    /\ UNCHANGED <<uploaded, processor, sessionChoiceVars, image_paths, acc,
                   image_name, result, caller, view>>

\* Lines 290-292: the outer handler returns the empty list.
process_images_abort ==
    /\ pc = "abort"
    /\ Return(caller, <<>>, progress)
    /\ UNCHANGED <<uploaded, processor, sessionChoiceVars, localVars, caller, view>>

\* ------------------------------------------------------ init_session_state
\* The keys init_session_state looks at, lines 100-126.
InitKeys == {"processor", "results", "progress", "stylists", "coupons", "use_cache",
             "template_choices", "user_selections", "salon_url"}
\* The value init_session_state stores under a key it does not find.
DefaultValue(k) == <<"default", k>>

\* Mutant: every key is set to its default, present or not.
init_session_state_overwrite(sess) ==
    [k \in (DOMAIN sess) \cup InitKeys |-> DefaultValue(k)]

\* Lines 97-126: `if not has_session_key(K): set_session_value(K, default)`
\* for each key in turn.
init_session_state(sess) ==
    [k \in (DOMAIN sess) \cup InitKeys |->
        IF k \in DOMAIN sess THEN sess[k] ELSE DefaultValue(k)]

\* ------------------------------------------- process_images called directly
InitSession ==
    /\ session = init_session_state(EmptyDict)
    /\ argument = <<>>
    /\ uploaded = <<>>
    /\ stages = NoStages
    /\ template_choices = EmptyDict
    /\ user_selections = EmptyDict
    /\ confirm_template_selections = FALSE
    /\ progress = InitProgress
    /\ acc = <<>>
    /\ image_name = None
    /\ result = NoResult
    /\ i = 0
    /\ returned = <<>>
    /\ view = NoView
    /\ raised = "none"
    /\ last_call = NoCall
    /\ confirmed = FALSE

InitBatch ==
    /\ InitSession
    /\ results = <<>>
    /\ processor \in {"None", "P"}
    /\ image_paths \in UNION {PathLists(n, Outcomes) : n \in 0..MaxFiles}
    /\ caller = "unit"
    /\ pc = "start"
    /\ rerun = FALSE

call_process_images ==
    /\ pc = "start"
    /\ process_images_enter("unit", processor, image_paths)
    /\ UNCHANGED <<uploaded, sessionChoiceVars, view>>

NextBatch ==
    \/ call_process_images
    \/ process_images_begin
    \/ process_images_call
    \/ process_images_append
    \/ process_images_skip
    \/ process_images_abort

\* ------------------------------------------------ claims on process_images
OkPaths(paths) == SelectSeq(paths, LAMBDA x : x.outcome = "ok")
\* The results the processor produces for the images it succeeds on, in input order.
Successes(paths) == [k \in 1..Len(OkPaths(paths)) |-> ProcessSingleImage(OkPaths(paths)[k])]
IsSubSeq(s, t) ==
    \E f \in [1..Len(s) -> 1..Len(t)] :
        /\ \A a, b \in 1..Len(s) : a < b => f[a] < f[b]
        /\ \A a \in 1..Len(s) : s[a] = t[f[a]]
AllOk(paths) == \A p \in 1..Len(paths) : paths[p].outcome = "ok"
BatchDone == pc = "returned" /\ processor = "P" /\ Len(image_paths) >= 1

\* C1 (as claimed): a non-empty batch with a usable processor returns exactly
\* one entry per input image, entry p belonging to image p, a failed image
\* being represented in its slot.
C1_OneEntryPerImage ==
    BatchDone =>
        /\ Len(returned) = Len(image_paths)
        /\ \A p \in 1..Len(returned) : returned[p].image_name = image_paths[p].name

\* C1 (amended): the returned list holds only results of images that
\* succeeded, each at most once and in input order (so at most n entries and
\* no entry for a failed image), and exactly n entries, entry p for image p,
\* when every image succeeds.
C1_SuccessesInOrder ==
    BatchDone =>
        /\ IsSubSeq(returned, Successes(image_paths))
        /\ Len(returned) <= Len(image_paths)
        /\ AllOk(image_paths) =>
              /\ Len(returned) = Len(image_paths)
              /\ \A p \in 1..Len(returned) :
                    returned[p] = ProcessSingleImage(image_paths[p])

C1_Witness ==
    /\ BatchDone
    /\ Len(image_paths) = 3
    /\ image_paths[2].outcome = "raise"
    /\ Len(returned) = 2
    /\ returned[2] = ProcessSingleImage(image_paths[3])

C3_State ==
    /\ (pc = "begin" /\ i = 0) =>
          /\ progress.current = 0
          /\ progress.total = Len(image_paths)
          /\ ~progress.complete
          /\ progress.start_time
    /\ pc \in {"begin", "call", "append", "skip", "abort"} => ~progress.complete
    /\ BatchDone =>
          /\ progress.current = Len(image_paths)
          /\ progress.total = Len(image_paths)
          /\ progress.complete
SpecBatch == InitBatch /\ [][NextBatch]_vars

\* ---------------------------------------------- display_template_choices
\* Mutant: the choice list leaves out the AI choice.
Choices_noDefault(r) == r.alternative_templates

\* Line 500: the choice list of a result, the AI choice first.
Choices(r) == <<r.selected_template>> \o r.alternative_templates

\* Python's templates[idx] raises IndexError outside -len..len-1.
PyIndexOk(seq, idx) == -Len(seq) <= idx /\ idx < Len(seq)

\* Lines 539-545: the value st.radio returns for image `name`.
RadioValue(w, name, default_idx) ==
    IF w.mock \/ w.changed = name THEN w.value ELSE default_idx

\* Lines 492-559 for results k, k+1, ...: st threads the two session dicts
\* and the exception, if any, that ends the loop.
RECURSIVE ChoiceLoop(_, _, _, _)
ChoiceLoop(rs, k, w, st) ==
    IF k > Len(rs) \/ st.raised # "none"
    THEN st
    ELSE LET name == rs[k].image_name
             ch == IF name \in DOMAIN st.choices
                   THEN st.choices
                   ELSE Put(st.choices, name, Choices(rs[k]))
             templates == ch[name]
             default_idx == Get(st.selections, name, 0)
             selected_idx == RadioValue(w, name, default_idx)
             sel == Put(st.selections, name, selected_idx)
             err == IF PyIndexOk(templates, selected_idx) THEN "none" ELSE "IndexError"
         IN ChoiceLoop(rs, k + 1, w, [choices |-> ch, selections |-> sel, raised |-> err])

\* Mutant: the confirm button ignores the recorded index and takes the first choice.
ConfirmResult_default(r, choices, selections) ==
    IF r.image_name \in DOMAIN selections
    THEN LET selected_idx == selections[r.image_name]
             templates == choices[r.image_name]
         IN IF 0 <= selected_idx /\ selected_idx < Len(templates)
            THEN [r EXCEPT !.user_selected_template = templates[1]]
            ELSE r
    ELSE r

\* Mutant: the range check lacks its lower bound, so a negative index counts
\* from the end of the list.
ConfirmResult_noLowerBound(r, choices, selections) ==
    IF r.image_name \in DOMAIN selections
    THEN LET selected_idx == selections[r.image_name]
             templates == choices[r.image_name]
         IN IF selected_idx < Len(templates) /\ -Len(templates) <= selected_idx
            THEN [r EXCEPT !.user_selected_template =
                     templates[IF selected_idx < 0
                               THEN Len(templates) + selected_idx + 1
                               ELSE selected_idx + 1]]
            ELSE r
    ELSE r

\* Mutant: the confirmed template also takes the place of the AI choice.
ConfirmResult_overwriteSelected(r, choices, selections) ==
    IF r.image_name \in DOMAIN selections
    THEN LET selected_idx == selections[r.image_name]
             templates == choices[r.image_name]
         IN IF 0 <= selected_idx /\ selected_idx < Len(templates)
            THEN [r EXCEPT !.user_selected_template = templates[selected_idx + 1],
                           !.selected_template = templates[selected_idx + 1]]
            ELSE r
    ELSE r

\* Lines 566-571: the confirm button applies the recorded selection of one result.
ConfirmResult(r, choices, selections) ==
    IF r.image_name \in DOMAIN selections
    THEN LET selected_idx == selections[r.image_name]
             templates == choices[r.image_name]
         IN IF 0 <= selected_idx /\ selected_idx < Len(templates)
            THEN [r EXCEPT !.user_selected_template = templates[selected_idx + 1]]
            ELSE r
    ELSE r

\* Mutant: the confirmed results are collected by inserting at the front.
ConfirmAll_reversed(rs, choices, selections) ==
    [k \in 1..Len(rs) |-> ConfirmResult(rs[Len(rs) + 1 - k], choices, selections)]

\* Lines 565-577: the result list the confirm button stores in the session.
ConfirmAll(rs, choices, selections) ==
    [k \in 1..Len(rs) |-> ConfirmResult(rs[k], choices, selections)]

\* Mutant: an index error of the choice loop is swallowed and the confirm
\* button still sets the flag.
display_template_choices_swallow(rs, w, button, tc, us, flag) ==
    IF rs = <<>>
    THEN [choices |-> tc, selections |-> us, raised |-> "none", results |-> rs,
          flag |-> flag, shown |-> FALSE]
    ELSE LET st == ChoiceLoop(rs, 1, w, [choices |-> tc, selections |-> us,
                                        raised |-> "none"])
         IN IF st.raised # "none"
            THEN [choices |-> st.choices, selections |-> st.selections,
                  raised |-> "none", results |-> rs, flag |-> (flag \/ button),
                  shown |-> TRUE]
            ELSE IF button
            THEN [choices |-> st.choices, selections |-> st.selections,
                  raised |-> "none",
                  results |-> ConfirmAll(rs, st.choices, st.selections),
                  flag |-> TRUE, shown |-> TRUE]
            ELSE [choices |-> st.choices, selections |-> st.selections,
                  raised |-> "none", results |-> rs, flag |-> flag, shown |-> TRUE]

\* Mutant: the confirm flag is set by every call that renders the screen.
display_template_choices_autoConfirm(rs, w, button, tc, us, flag) ==
    IF rs = <<>>
    THEN [choices |-> tc, selections |-> us, raised |-> "none", results |-> rs,
          flag |-> flag, shown |-> FALSE]
    ELSE LET st == ChoiceLoop(rs, 1, w, [choices |-> tc, selections |-> us,
                                        raised |-> "none"])
         IN IF st.raised # "none"
            THEN [choices |-> st.choices, selections |-> st.selections,
                  raised |-> st.raised, results |-> rs, flag |-> flag, shown |-> TRUE]
            ELSE IF button
            THEN [choices |-> st.choices, selections |-> st.selections,
                  raised |-> "none",
                  results |-> ConfirmAll(rs, st.choices, st.selections),
                  flag |-> TRUE, shown |-> TRUE]
            ELSE [choices |-> st.choices, selections |-> st.selections,
                  raised |-> "none", results |-> rs, flag |-> TRUE, shown |-> TRUE]

\* Lines 474-580 as a function of the session state it reads: what it leaves
\* in the session, whether it rendered the screen, what it raised.
display_template_choices(rs, w, button, tc, us, flag) ==
    IF rs = <<>>
    THEN [choices |-> tc, selections |-> us, raised |-> "none", results |-> rs,
          flag |-> flag, shown |-> FALSE]
    ELSE LET st == ChoiceLoop(rs, 1, w, [choices |-> tc, selections |-> us,
                                        raised |-> "none"])
         IN IF st.raised # "none"
            THEN [choices |-> st.choices, selections |-> st.selections,
                  raised |-> st.raised, results |-> rs, flag |-> flag, shown |-> TRUE]
            ELSE IF button
            THEN [choices |-> st.choices, selections |-> st.selections,
                  raised |-> "none",
                  results |-> ConfirmAll(rs, st.choices, st.selections),
                  flag |-> TRUE, shown |-> TRUE]
            ELSE [choices |-> st.choices, selections |-> st.selections,
                  raised |-> "none", results |-> rs, flag |-> flag, shown |-> TRUE]

\* A confirmation that ran to its end right after a confirmation that ran to
\* its end with the same widget values.
Repeats(button, w, d) ==
    /\ button /\ d.shown /\ d.raised = "none"
    /\ last_call.called /\ last_call.button /\ raised = "none"
    /\ last_call.widget = w

\* ------------------------------------------------------- result views
\* A result that is a plain dict, as process_images lines 244-246 and
\* convert_to_process_results lines 876-946 expect some results to be: it has
\* keys, no attributes.
DictResult(name) ==
    [image_name |-> name, selected_template |-> None, alternative_templates |-> <<>>,
     user_selected_template |-> None,
     style_analysis |-> None, attribute_analysis |-> None,
     selected_stylist |-> None, selected_coupon |-> None, is_dict |-> TRUE]
IsDict(r) == "is_dict" \in DOMAIN r

\* A ProcessResult whose selected_template is None.
NoTemplateResult(name) ==
    [image_name |-> name, selected_template |-> None, alternative_templates |-> <<>>,
     user_selected_template |-> None,
     style_analysis |-> None, attribute_analysis |-> None,
     selected_stylist |-> None, selected_coupon |-> None]

\* Lines 584-604: one table row per result, built from result.selected_template
\* (a None template gives the placeholder texts); an exception raised for any
\* result is caught around the whole loop and an empty table is returned.
convert_results_to_dataframe(rs) ==
    IF \E k \in 1..Len(rs) : IsDict(rs[k])
    THEN <<>>
    ELSE [k \in 1..Len(rs) |-> [image |-> rs[k].image_name,
                                 template |-> rs[k].selected_template]]

\* Lines 641-662: the template the detail view of one result shows.
DetailTemplate(r) ==
    IF r.user_selected_template # None THEN r.user_selected_template
    ELSE IF r.selected_template # None THEN r.selected_template
    ELSE None
display_image_details(rs) == [k \in 1..Len(rs) |-> DetailTemplate(rs[k])]

\* Mutant: the conversion loses the last result.
convert_to_process_results_dropLast(rs) == SubSeq(rs, 1, Len(rs) - 1)

\* Lines 947-949: a ProcessResult object is passed through unchanged.
convert_to_process_results(rs) == rs

\* The effective template of a result (spec 4.5), which the exporters
\* (ExcelExporter / TextExporter) write.
EffectiveTemplate(r) ==
    IF r.user_selected_template # None THEN r.user_selected_template
    ELSE r.selected_template
ExportRows(rs) ==
    [k \in 1..Len(rs) |-> [image |-> rs[k].image_name,
                            template |-> EffectiveTemplate(rs[k])]]

\* The value of generate_excel_data: None, or the bytes of a document.
NoDocument == [absent |-> TRUE, rows |-> <<>>]
Document(rows) == [absent |-> FALSE, rows |-> rows]

\* Mutant: an empty result list is handed to the exporter like any other.
generate_excel_data_noEmptyCheck(rs, proc) ==
    IF proc = "None" THEN NoDocument ELSE Document(ExportRows(rs))

\* Lines 959-982: no processor or no result gives None, else the exporter's bytes.
generate_excel_data(rs, proc) ==
    IF proc = "None" THEN NoDocument
    ELSE IF rs = <<>> THEN NoDocument
    ELSE Document(ExportRows(rs))

\* Lines 664-685: the download buttons and the rows handed to the exporters.
display_export_buttons(sess, proc) ==
    IF sess = <<>> \/ proc = "None"
    THEN [buttons |-> FALSE, export |-> <<>>, handed |-> <<>>]
    ELSE [buttons |-> TRUE, export |-> ExportRows(convert_to_process_results(sess)),
          handed |-> convert_to_process_results(sess)]

\* Lines 687-703.
display_results(screen, rs, sess, proc) ==
    IF rs = <<>>
    THEN [NoView EXCEPT !.screen = "warning"]
    ELSE [screen |-> screen,
          table |-> convert_results_to_dataframe(rs),
          details |-> display_image_details(rs),
          export |-> display_export_buttons(sess, proc).export,
          buttons |-> display_export_buttons(sess, proc).buttons,
          handed |-> display_export_buttons(sess, proc).handed,
          excluded_shown |-> FALSE]

Screen(name) == [NoView EXCEPT !.screen = name]

\* ---------------------------------------------------------------- main
\* Line 1489: file p of the upload is saved as styleimg_<p>; lines 1484-1510
\* skip a file that is not a valid image.  oracle[p] is what the processor
\* will do with file p.
handle_image_upload(files, oracle) ==
    LET all == [p \in 1..Len(files) |-> PathOf(p, oracle[p][1], oracle[p][2])]
    IN SelectSeq(all, LAMBDA x : files[x.name])

Oracles(files) ==
    {k \in [1..Len(files) -> PathKinds({"ok", "raise", "none"})] :
        \A p \in 1..Len(files) : ~files[p] => k[p] = <<"ok", 1>>}

\* Mutant: the stage record is reset whenever files are in the uploader.
ResetStages_always(files, st) ==
    IF files # <<>> THEN Stages(FALSE, FALSE, FALSE) ELSE st

\* Mutant: the reset tests results_display_done instead of processing_done.
ResetStages_untilDisplayed(files, st) ==
    IF files # <<>> /\ ~StageGet(st, "results_display_done", FALSE)
    THEN Stages(FALSE, FALSE, FALSE)
    ELSE st

\* Lines 1613-1618: a new upload resets the stage record.
ResetStages(files, st) ==
    IF files # <<>> /\ ~StageGet(st, "processing_done", FALSE)
    THEN Stages(FALSE, FALSE, FALSE)
    ELSE st

\* Mutant: the selection branch does not test template_selection_done.
Branch_reselect(files, res, st) ==
    IF files # <<>> /\ ~StageGet(st, "processing_done", FALSE) THEN "process"
    ELSE IF res # <<>> /\ StageGet(st, "processing_done", FALSE) THEN "select"
    ELSE IF res # <<>> /\ StageGet(st, "template_selection_done", TRUE) THEN "display"
    ELSE "initial"

\* Mutant: the display branch tests processing_done and comes first.
Branch_displayFirst(files, res, st) ==
    IF files # <<>> /\ ~StageGet(st, "processing_done", FALSE) THEN "process"
    ELSE IF res # <<>> /\ StageGet(st, "processing_done", TRUE) THEN "display"
    ELSE IF res # <<>> /\ StageGet(st, "processing_done", FALSE)
                       /\ ~StageGet(st, "template_selection_done", FALSE) THEN "select"
    ELSE "initial"

\* Which branch of lines 1624-1710 a run takes.
Branch(files, res, st) ==
    IF files # <<>> /\ ~StageGet(st, "processing_done", FALSE) THEN "process"
    ELSE IF res # <<>> /\ StageGet(st, "processing_done", FALSE)
                       /\ ~StageGet(st, "template_selection_done", FALSE) THEN "select"
    ELSE IF res # <<>> /\ StageGet(st, "template_selection_done", TRUE) THEN "display"
    ELSE "initial"

\* One run of main() that does not start a batch: `press` is the button
\* pressed in this run ("none" or "confirm"), w the radio widgets.
main_run(files, press, w) ==
    LET res == results
        st == ResetStages(files, stages)
        branch == Branch(files, res, st)
    IN
    /\ pc' = "idle"
    /\ UNCHANGED <<processor, progress, localVars, caller, returned>>
    /\ IF branch = "process"
       THEN /\ view' = Screen("process_button")
            /\ stages' = st
            /\ rerun' = FALSE
            /\ UNCHANGED <<results, sessionChoiceVars>>
       ELSE IF branch = "select"
       THEN \E d \in {display_template_choices(res, w, press = "confirm",
                        template_choices, user_selections, confirm_template_selections)} :
               /\ UNCHANGED <<session, argument>>
               /\ template_choices' = d.choices
               /\ user_selections' = d.selections
               /\ results' = d.results
               /\ raised' = d.raised
               /\ last_call' = Call(press = "confirm", w,
                                     Repeats(press = "confirm", w, d))
               /\ confirmed' = (confirmed \/ press = "confirm")
               /\ view' = Screen("choices")
               /\ IF d.raised = "none" /\ d.flag
                  THEN /\ stages' = Stages(TRUE, TRUE, FALSE)
                       /\ confirm_template_selections' = FALSE
                       /\ rerun' = TRUE
                  ELSE /\ stages' = st
                       /\ confirm_template_selections' = d.flag
                       /\ rerun' = FALSE
       ELSE IF branch = "display"
       THEN /\ view' = display_results("results", res, results, processor)
            /\ stages' = IF ~StageGet(st, "results_display_done", FALSE)
                         THEN Stages(TRUE, TRUE, TRUE)
                         ELSE st
            /\ rerun' = FALSE
            /\ UNCHANGED <<results, sessionChoiceVars>>
       ELSE /\ view' = IF res # <<>>
                       THEN display_results("previous", res, results, processor)
                       ELSE Screen(IF files = <<>> THEN "upload_hint" ELSE "empty")
            /\ stages' = st
            /\ rerun' = FALSE
            /\ UNCHANGED <<results, sessionChoiceVars>>

\* Lines 1625-1648: the process button starts a batch; the run is then inside
\* process_images until it returns (Return continues with lines 1650-1668).
main_process(files, oracle) ==
    \E made \in (IF processor = "None" THEN BOOLEAN ELSE {TRUE}) :
        LET proc == IF processor = "None" /\ ~made THEN "None" ELSE "P" IN
        /\ process_images_enter("main", proc, handle_image_upload(files, oracle))
        /\ view' = Screen("processing")
        /\ UNCHANGED <<uploaded, sessionChoiceVars>>

Uploads == UNION {[1..n -> BOOLEAN] : n \in 0..MaxUpload}
ResultNames == {results[k].image_name : k \in 1..Len(results)}
Idle == pc = "idle" /\ ~rerun

\* The first script run of a session, the run st.rerun() asks for, or a run
\* caused by a widget that main() does not read.
script_rerun ==
    /\ pc = "idle"
    /\ main_run(uploaded, "none", NoWidget)
    /\ UNCHANGED uploaded

\* The user changes the content of the file uploader.
user_upload ==
    /\ Idle
    /\ \E files \in Uploads :
          /\ files # uploaded
          /\ uploaded' = files
          /\ main_run(files, "none", NoWidget)

\* The user picks another entry of one image's radio.
user_select ==
    /\ Idle
    /\ view.screen = "choices"
    /\ \E name \in ResultNames :
          \E idx \in 0..(Len(template_choices[name]) - 1) :
              /\ idx # user_selections[name]
              /\ main_run(uploaded, "none", Widget(FALSE, name, idx))
    /\ UNCHANGED uploaded

\* The user presses the confirm button of the choice screen.
press_confirm ==
    /\ Idle
    /\ view.screen = "choices"
    /\ main_run(uploaded, "confirm", NoWidget)
    /\ UNCHANGED uploaded

\* The user presses the process button.
press_process ==
    /\ Idle
    /\ view.screen = "process_button"
    /\ Branch(uploaded, results, stages) = "process"
    /\ stages = ResetStages(uploaded, stages)
    /\ \E oracle \in Oracles(uploaded) : main_process(uploaded, oracle)

Init ==
    /\ InitSession
    /\ results = <<>>
    /\ processor = "None"
    /\ image_paths = <<>>
    /\ caller = "main"
    /\ pc = "idle"
    /\ rerun = TRUE

Next ==
    \/ script_rerun
    \/ user_upload
    \/ user_select
    \/ press_confirm
    \/ press_process
    \/ process_images_begin
    \/ process_images_call
    \/ process_images_append
    \/ process_images_skip

Spec == Init /\ [][Next]_vars

\* --------------------------- display_template_choices called directly
\* The harness of the unit tests: a session with empty choice dicts, a result
\* list, st.radio patched to return one value and st.button patched.
ResultLists == {Successes(pl) : pl \in UNION {PathLists(n, {"ok"}) : n \in 0..MaxResults}}
MockRadioValues == -1..NStyles

InitChoices ==
    /\ InitSession
    /\ processor = "P"
    /\ image_paths = <<>>
    /\ caller = "unit"
    /\ pc = "choices"
    /\ rerun = FALSE
    /\ results \in ResultLists

call_display_template_choices ==
    /\ pc = "choices"
    /\ \E value \in MockRadioValues, button \in BOOLEAN :
          \E d \in {display_template_choices(results, Widget(TRUE, None, value), button,
                        template_choices, user_selections,
                        confirm_template_selections)} :
              /\ UNCHANGED <<session, argument>>
              /\ template_choices' = d.choices
              /\ user_selections' = d.selections
              /\ results' = d.results
              /\ confirm_template_selections' = d.flag
              /\ raised' = d.raised
              /\ last_call' = Call(button, Widget(TRUE, None, value),
                                    Repeats(button, Widget(TRUE, None, value), d))
              /\ confirmed' = (confirmed \/ (button /\ d.shown /\ d.raised = "none"))
              /\ view' = Screen(IF d.shown THEN "choices" ELSE "warning")
    /\ UNCHANGED <<uploaded, processor, stages, progress, pc, localVars, caller,
                   returned, rerun>>

NextChoices == call_display_template_choices

SpecChoices == InitChoices /\ [][NextChoices]_vars

\* ------------------------------- claims on the choice screen and main()
NameOf(k) == results[k].image_name
Finalized == StageGet(stages, "template_selection_done", FALSE)

\* C4: before any confirmation no result has a user_selected_template (its
\* effective template is selected_template); once the confirm button has been
\* pressed every result's recorded selection is an index k of its choice list
\* and its user_selected_template is the k-th choice (0: the AI choice,
\* 1: alternative_templates[0]).
C4_RoundTrip ==
    /\ ~confirmed =>
          \A k \in 1..Len(results) :
              /\ results[k].user_selected_template = None
              /\ DetailTemplate(results[k]) = results[k].selected_template
    /\ confirmed =>
          \A k \in 1..Len(results) :
              /\ NameOf(k) \in DOMAIN user_selections
              /\ NameOf(k) \in DOMAIN template_choices
              /\ LET idx == user_selections[NameOf(k)]
                     ch == template_choices[NameOf(k)]
                 IN /\ 0 <= idx /\ idx < Len(ch)
                    /\ results[k].user_selected_template = ch[idx + 1]
                    /\ idx = 0 => results[k].user_selected_template
                                     = results[k].selected_template
                    /\ idx = 1 => results[k].user_selected_template
                                     = results[k].alternative_templates[1]

C4_Witness ==
    /\ confirmed
    /\ Len(results) = 2
    /\ user_selections[NameOf(1)] = 0
    /\ user_selections[NameOf(2)] = 1
    /\ results[2].user_selected_template = results[2].alternative_templates[1]
    /\ results[2].user_selected_template # results[2].selected_template

\* C5 (as claimed, for the two consumers the UI module implements): wherever
\* results are shown, the summary table row and the detail view of a result
\* use its user_selected_template when that is set, and its selected_template
\* only when it is unset.
C5_EffectiveTemplateEverywhere ==
    view.screen \in {"results", "previous"} =>
        \A k \in 1..Len(results) :
            LET r == results[k]
                effective == IF r.user_selected_template # None
                             THEN r.user_selected_template
                             ELSE r.selected_template
            IN /\ view.table[k].template = effective
               /\ view.details[k] = effective

\* A call whose radio value is outside the choice list of result k.
OutOfRange(k, value) == value < 0 \/ value >= Len(Choices(results[k]))
TooLarge(value) == \E j \in 1..Len(results) : value >= Len(Choices(results[j]))

C7_ConfirmIdempotent ==
    [][last_call'.repeated =>
          /\ results' = results
          /\ template_choices' = template_choices
          /\ user_selections' = user_selections
          /\ confirm_template_selections' = confirm_template_selections
          /\ raised' = raised
      ]_vars

C7_Witness ==
    /\ last_call.repeated
    /\ Len(results) = 2
    /\ results[1].user_selected_template = results[1].selected_template
    /\ results[2].user_selected_template = results[2].selected_template
    /\ results[1] # results[2]

\* C8: once template_selection_done is true, no step changes the result list,
\* a result's user_selected_template or a recorded selection, the flag stays
\* true and no later run renders the choice screen.
C8_FinalizedTerminal ==
    [][Finalized =>
          /\ results' = results
          /\ user_selections' = user_selections
          /\ template_choices' = template_choices
          /\ Finalized'
          /\ view'.screen # "choices"
      ]_vars

C8_Witness ==
    /\ Finalized /\ ~rerun
    /\ stages.results_display_done
    /\ view.screen = "results"
    /\ uploaded # <<>>
    /\ Len(results) = 2
    /\ Len(results[2].alternative_templates) >= 1
    /\ results[2].user_selected_template = results[2].alternative_templates[1]

\* C9: results are shown, and their download buttons offered, only after the
\* confirm button has been pressed and template_selection_done set.
C9_ConfirmBeforeDisplay ==
    (view.screen \in {"results", "previous"} \/ view.table # <<>> \/ view.buttons) =>
        confirmed /\ Finalized

C9_Witness ==
    /\ view.screen = "results"
    /\ view.buttons
    /\ Len(view.table) = 2
    /\ confirmed

InBatch == pc \in {"begin", "call", "append", "skip"}
ProcessRunEnds ==
    /\ caller' = "main"
    /\ pc' = "idle"
    /\ \/ InBatch
       \/ view.screen = "process_button" /\ view'.screen = "processing"

\* C11: the run of main() in which the process button is pressed (files
\* uploaded, processing_done false) stores the batch results in the session,
\* sets the stage record to processing_done true, template_selection_done
\* false, results_display_done false, and requests one rerun.
C11_ProcessingStep ==
    [][ProcessRunEnds =>
          /\ results' = returned'
          /\ processor' = "P" => results' = Successes(image_paths')
          /\ stages' = Stages(TRUE, FALSE, FALSE)
          /\ ~rerun /\ rerun'
          /\ uploaded # <<>>
          /\ ~StageGet(stages, "processing_done", FALSE)
      ]_vars

C11_Witness ==
    /\ caller = "main" /\ pc = "idle" /\ rerun
    /\ view.screen = "processing"
    /\ Len(image_paths) = 2
    /\ Len(results) = 2
    /\ results = returned
    /\ stages = Stages(TRUE, FALSE, FALSE)

\* ------------------------------------------------ claims on an empty batch
EmptyCall == pc = "start" /\ image_paths = <<>>
EmptyDone == pc = "returned" /\ image_paths = <<>>

\* C12 (as claimed): for an empty image list process_images returns the empty
\* list and leaves the progress state at total = 0 and complete = true.
C12_EmptyBatchComplete ==
    EmptyDone =>
        /\ returned = <<>>
        /\ progress.total = 0
        /\ progress.complete

\* C12 (amended): for an empty image list process_images returns the empty
\* list in its first step, without invoking the processor for any image and
\* without touching the progress state, which stays as init_session_state left
\* it: total = 0, complete = false.
C12_EmptyBatchUntouched ==
    [][EmptyCall =>
          /\ pc' = "returned"
          /\ returned' = <<>>
          /\ result' = NoResult /\ acc' = <<>>
          /\ progress' = progress
          /\ progress'.total = 0
          /\ ~progress'.complete
      ]_vars

C12_Witness ==
    /\ EmptyDone
    /\ processor = "P"
    /\ returned = <<>>
    /\ progress = InitProgress
    /\ ~progress.complete

\* ------------------------------------------- main() with patched widgets
\* The harness of the unit tests around main(): a session that holds a
\* processed batch (results stored, stage record at processing_done), no
\* uploaded file, st.radio patched to return one value and st.button patched.
InitMock ==
    /\ session = init_session_state(EmptyDict)
    /\ argument = <<>>
    /\ uploaded = <<>>
    /\ template_choices = EmptyDict
    /\ user_selections = EmptyDict
    /\ confirm_template_selections = FALSE
    /\ progress = InitProgress
    /\ acc = <<>>
    /\ image_name = None
    /\ result = NoResult
    /\ i = 0
    /\ returned = <<>>
    /\ view = NoView
    /\ raised = "none"
    /\ last_call = NoCall
    /\ confirmed = FALSE
    /\ results \in ResultLists \ {<<>>}
    /\ stages = Stages(TRUE, FALSE, FALSE)
    /\ processor = "P"
    /\ image_paths = <<>>
    /\ caller = "main"
    /\ pc = "idle"
    /\ rerun = FALSE

mock_main_run ==
    /\ pc = "idle"
    /\ \E value \in MockRadioValues, press \in {"none", "confirm"} :
          main_run(uploaded, press, Widget(TRUE, None, value))
    /\ UNCHANGED uploaded

NextMock == mock_main_run

SpecMock == InitMock /\ [][NextMock]_vars

\* ------------------------------------------- claims on selection errors
\* The run this step makes is in the selection stage.
Selecting == Branch(uploaded, results, ResetStages(uploaded, stages)) = "select"
\* This step is a run in the selection stage with the confirm button pressed and
\* every radio returning v.
ConfirmAttempt(v) ==
    /\ Selecting
    /\ last_call'.called /\ last_call'.button
    /\ last_call'.widget.mock /\ last_call'.widget.value = v
ValidForAll(v) == \A k \in 1..Len(results) : ~OutOfRange(k, v)

MaxRows == 3       \* most results handed to a direct convert_results_to_dataframe call
RowItems(name) ==
    {ProcessSingleImage(PathOf(name, "ok", t)) : t \in Templates}
        \cup {NoTemplateResult(name), DictResult(name)}
TableInputs ==
    UNION {{[k \in 1..n |-> pick[k]] :
               pick \in {f \in [1..n -> UNION {RowItems(m) : m \in 1..n}] :
                            \A k \in 1..n : f[k].image_name = k}} : n \in 0..MaxRows}

InitTable ==
    /\ InitSession
    /\ results \in TableInputs
    /\ processor \in {"None", "P"}
    /\ image_paths = <<>>
    /\ caller = "unit"
    /\ pc = "table"
    /\ rerun = FALSE

call_convert_results_to_dataframe ==
    /\ pc = "table"
    /\ view' = [NoView EXCEPT !.screen = "table",
                              !.table = convert_results_to_dataframe(results)]
    /\ pc' = "table_done"
    /\ UNCHANGED <<uploaded, processor, results, stages, sessionChoiceVars, progress,
                   localVars, caller, returned, rerun>>

\* generate_excel_data and display_export_buttons on the stored results (the
\* exporters are given ProcessResult objects only).
call_generate_excel_data ==
    /\ pc = "table"
    /\ \A k \in 1..Len(results) : ~IsDict(results[k])
    /\ returned' = generate_excel_data(results, processor)
    /\ view' = [NoView EXCEPT
                   !.screen = "export",
                   !.buttons = display_export_buttons(results, processor).buttons,
                   !.handed = display_export_buttons(results, processor).handed,
                   !.export = display_export_buttons(results, processor).export]
    /\ pc' = "export_done"
    /\ UNCHANGED <<uploaded, processor, results, stages, sessionChoiceVars, progress,
                   localVars, caller, rerun>>

NextTable ==
    \/ call_convert_results_to_dataframe
    \/ call_generate_excel_data

SpecTable == InitTable /\ [][NextTable]_vars

\* ------------------------------------------ claims on the table conversion
Readable(rs) == SelectSeq(rs, LAMBDA r : ~IsDict(r))
RowOf(r) == [image |-> r.image_name, template |-> r.selected_template]

\* C14 (as claimed): the table has one row per result in result order, a
\* result without template gets a placeholder row, and a result whose
\* conversion fails does not remove the rows of the other results.
C14_RowPerResult ==
    pc = "table_done" =>
        /\ Len(view.table) = Len(Readable(results))
        /\ \A k \in 1..Len(view.table) : view.table[k] = RowOf(Readable(results)[k])

\* --------------------------------------- claims on a partially failed batch
ResultsShown == view.screen \in {"results", "previous"}
Names(rs) == [k \in 1..Len(rs) |-> rs[k].image_name]
Failed(paths) == Len(paths) - Len(OkPaths(paths))

\* C15 (as claimed): when the results of a batch with failed images are shown
\* for export, the exporters get exactly the successfully processed images
\* and the screen reports the number of excluded images.
C15_ExclusionsReported ==
    (ResultsShown /\ view.buttons) =>
        /\ Names(view.handed) = Names(Successes(image_paths))
        /\ Failed(image_paths) > 0 => view.excluded_shown

\* C15 (amended): when the results of a batch are shown for export, the
\* summary table and the list handed to the exporters hold exactly one entry
\* per successfully processed image, in input order, the failed images being
\* left out; the screen reports no count of excluded images.
C15_SuccessesExported ==
    (ResultsShown /\ view.buttons) =>
        /\ Names(view.handed) = Names(Successes(image_paths))
        /\ [k \in 1..Len(view.table) |-> view.table[k].image]
              = Names(Successes(image_paths))
        /\ Len(view.handed) = Len(image_paths) - Failed(image_paths)
        /\ ~view.excluded_shown

C15_Witness ==
    /\ ResultsShown /\ view.buttons
    /\ Len(image_paths) = 2
    /\ image_paths[1].outcome = "raise"
    /\ Len(view.handed) = 1
    /\ view.handed[1].image_name = image_paths[2].name
    /\ ~view.excluded_shown

\* ------------------------------------------------- claims on the export
ExportedEmpty == pc = "export_done" /\ results = <<>>

\* C16 (as claimed): exporting an empty result list returns a well-formed
\* empty document, not an absent value.
C16_EmptyDocument ==
    ExportedEmpty => (~returned.absent /\ returned.rows = <<>>)

\* C16 (amended): exporting an empty result list produces no document and no
\* error: generate_excel_data returns None and display_export_buttons offers
\* no download button.
C16_NoDocument ==
    ExportedEmpty =>
        /\ returned = NoDocument
        /\ raised = "none"
        /\ ~view.buttons /\ view.handed = <<>> /\ view.export = <<>>

C16_Witness ==
    /\ ExportedEmpty
    /\ processor = "P"
    /\ returned.absent
    /\ ~view.buttons

\* ------------------------------------------------- claims on re-entry
SessionState == <<processor, results, stages, template_choices, user_selections,
                  confirm_template_selections, progress>>
\* A step that is a whole run of main() in which no button is pressed.
QuietRun ==
    /\ pc = "idle" /\ pc' = "idle"
    /\ ~(Selecting /\ last_call'.button)
    /\ ~(view.screen = "process_button" /\ view'.screen = "processing")
StageKeys == {"processing_done", "template_selection_done", "results_display_done"}
StageNotEarlier ==
    \A key \in StageKeys : StageGet(stages, key, FALSE) => StageGet(stages', key, FALSE)
\* C17, first part: a run of main() without a button press starts no batch,
\* changes neither the stored results nor the progress, and moves no stage flag
\* back.
C17_QuietRunKeeps ==
    QuietRun =>
        /\ results' = results
        /\ progress' = progress /\ returned' = returned /\ processor' = processor
        /\ StageNotEarlier
\* C17, second part: after a run without a button press, one more such run
\* leaves the session state as it is.
C17_QuietRunFixpoint ==
    Idle => ~ENABLED (script_rerun /\ SessionState' # SessionState)

\* C17: re-entry is idempotent: a run of main() in which no button is pressed
\* does not re-run image processing, does not change the stored results or a
\* result's templates, does not move the workflow to an earlier stage, and a
\* second such run leaves the session state of the first.
C17_ReentryIdempotent ==
    [][C17_QuietRunKeeps]_vars /\ [](C17_QuietRunFixpoint)

C17_Witness ==
    /\ Idle
    /\ uploaded # <<>>
    /\ stages = Stages(TRUE, TRUE, TRUE)
    /\ view.screen = "results"
    /\ Len(results) = 1
    /\ results[1].user_selected_template # None

\* ----------------------------------- init_session_state called directly
\* A prior session: any subset of the keys, each holding the value
\* init_session_state would store or another one.
PriorValues(k) == {DefaultValue(k), <<"prior", k>>}
PriorSession(c) ==
    [k \in {x \in InitKeys : c[x] # "absent"} |->
        IF c[k] = "default" THEN DefaultValue(k) ELSE <<"prior", k>>]
PriorSessions ==
    {PriorSession(c) : c \in [InitKeys -> {"absent", "default", "prior"}]}

InitInit ==
    /\ session \in PriorSessions
    /\ argument = <<>>
    /\ uploaded = <<>>
    /\ results = <<>>
    /\ stages = NoStages
    /\ template_choices = EmptyDict
    /\ user_selections = EmptyDict
    /\ confirm_template_selections = FALSE
    /\ progress = InitProgress
    /\ acc = <<>>
    /\ image_name = None
    /\ result = NoResult
    /\ i = 0
    /\ returned = <<>>
    /\ view = NoView
    /\ raised = "none"
    /\ last_call = NoCall
    /\ confirmed = FALSE
    /\ processor = "None"
    /\ image_paths = <<>>
    /\ caller = "unit"
    /\ pc = "init"
    /\ rerun = FALSE

call_init_session_state ==
    /\ pc \in {"init", "init_done"}
    /\ session' = init_session_state(session)
    /\ pc' = "init_done"
    /\ UNCHANGED <<uploaded, processor, results, stages, template_choices,
                   user_selections, confirm_template_selections, last_call, confirmed,
                   raised, progress, localVars, caller, returned, view, rerun,
                   argument>>

NextInit == call_init_session_state

SpecInit == InitInit /\ [][NextInit]_vars

\* ------------------------------------------ claims on init_session_state
ClaimedKeys == {"processor", "results", "progress", "stylists", "coupons",
                "template_choices", "user_selections"}

\* C18: after init_session_state, from any prior session, the keys processor,
\* results, progress, stylists, coupons, template_choices and user_selections
\* are present, every key present before keeps its value, and calling it
\* again changes nothing.
C18_InitKeepsValues ==
    [][(pc = "init" \/ pc = "init_done") =>
          /\ ClaimedKeys \subseteq DOMAIN session'
          /\ \A k \in DOMAIN session : session'[k] = session[k]
          /\ pc = "init_done" => session' = session
      ]_vars

C18_Witness ==
    /\ pc = "init_done"
    /\ ClaimedKeys \subseteq DOMAIN session
    /\ session["results"] = <<"prior", "results">>
    /\ session["template_choices"] = <<"prior", "template_choices">>
    /\ session["progress"] = DefaultValue("progress")

\* ------------------------------------------------------- display_progress
\* Largest batch size and image counter of a progress dict.
MaxTotal == 5

\* What display_progress renders: the bar with its value min(current/total, 1)
\* as a fraction, the elapsed-time lines, the stage expander, the success box.
NoProgressView ==
    [screen |-> "progress", bar |-> FALSE, value |-> <<0, 1>>, elapsed |-> FALSE,
     remaining |-> FALSE, expander |-> FALSE, success |-> FALSE]

\* Mutant: the completion message is tested outside `if total > 0:`.
display_progress_outside(sess, prog) ==
    IF "progress" \notin DOMAIN sess THEN NoProgressView
    ELSE IF prog.total > 0
         THEN [screen |-> "progress",
               bar |-> TRUE,
               value |-> <<IF prog.current >= prog.total THEN prog.total
                           ELSE prog.current, prog.total>>,
               elapsed |-> prog.start_time,
               remaining |-> prog.start_time /\ 0 < prog.current
                                             /\ prog.current < prog.total,
               expander |-> prog.stage_details.kind # "absent",
               success |-> prog.complete]
         ELSE [NoProgressView EXCEPT !.success = prog.complete]

\* Lines 366-471: nothing without the session key (368) or with total = 0
\* (374); else the bar (411-412), the times (428-461), the expander (464-467)
\* and, when complete, the success box (470-471).
display_progress(sess, prog) ==
    IF "progress" \notin DOMAIN sess THEN NoProgressView
    ELSE IF prog.total > 0
         THEN [screen |-> "progress",
               bar |-> TRUE,
               value |-> <<IF prog.current >= prog.total THEN prog.total
                           ELSE prog.current, prog.total>>,
               elapsed |-> prog.start_time,
               remaining |-> prog.start_time /\ 0 < prog.current
                                             /\ prog.current < prog.total,
               expander |-> prog.stage_details.kind # "absent",
               success |-> prog.complete]
         ELSE NoProgressView

\* The progress dicts display_progress is called on: those init_session_state,
\* process_images and update_progress leave, and the test's fixture.
ProgressStates ==
    {[current |-> c, total |-> t, message |-> <<"msg", 0>>, start_time |-> s,
      complete |-> d, stage_details |-> Detail(k, None)] :
        c \in 0..MaxTotal, t \in 0..MaxTotal, s \in BOOLEAN, d \in BOOLEAN,
        k \in {"absent", "prepare"}}

InitDisplayProgress ==
    /\ session \in {EmptyDict, init_session_state(EmptyDict)}
    /\ argument = <<>>
    /\ progress \in ProgressStates
    /\ uploaded = <<>>
    /\ results = <<>>
    /\ stages = NoStages
    /\ template_choices = EmptyDict
    /\ user_selections = EmptyDict
    /\ confirm_template_selections = FALSE
    /\ acc = <<>>
    /\ image_name = None
    /\ result = NoResult
    /\ i = 0
    /\ returned = <<>>
    /\ view = NoView
    /\ raised = "none"
    /\ last_call = NoCall
    /\ confirmed = FALSE
    /\ processor = "None"
    /\ image_paths = <<>>
    /\ caller = "unit"
    /\ pc = "progress"
    /\ rerun = FALSE

call_display_progress ==
    /\ pc = "progress"
    /\ view' = display_progress(session, progress)
    /\ pc' = "progress_done"
    /\ UNCHANGED <<uploaded, processor, results, stages, sessionChoiceVars, progress,
                   localVars, caller, returned, rerun>>

NextProgress == call_display_progress

SpecProgress == InitDisplayProgress /\ [][NextProgress]_vars

\* ------------------------------------------------ claims on display_progress
HasProgress == "progress" \in DOMAIN session

\* C19: display_progress shows the completion message exactly when the
\* progress state has total > 0 and complete = true; for an incomplete batch
\* it renders the progress bar and no completion message.
C19_CompletionMessage ==
    pc = "progress_done" =>
        /\ view.success <=> (HasProgress /\ progress.total > 0 /\ progress.complete)
        /\ (HasProgress /\ progress.total > 0 /\ ~progress.complete) =>
              (view.bar /\ ~view.success)

C19_Witness ==
    /\ pc = "progress_done"
    /\ HasProgress
    /\ progress.current = 2
    /\ progress.total = 5
    /\ ~progress.complete
    /\ view.bar
    /\ view.value = <<2, 5>>
    /\ ~view.success

\* ------------------------------------------ display_results called directly
InitResults ==
    /\ InitSession
    /\ results \in ResultLists
    /\ processor \in {"None", "P"}
    /\ progress = InitProgress
    /\ image_paths = <<>>
    /\ i = 0
    /\ acc = <<>>
    /\ image_name = None
    /\ result = NoResult
    /\ caller = "unit"
    /\ returned = <<>>
    /\ view = NoView
    /\ rerun = FALSE
    /\ raised = "none"
    /\ last_call = NoCall
    /\ confirmed = FALSE
    /\ pc = "results"

\* The test sets the session up and picks the list to display.
pick_results ==
    /\ pc = "results"
    /\ argument' \in ResultLists
    /\ pc' = "picked"
    /\ UNCHANGED <<uploaded, processor, results, stages, template_choices,
                   user_selections, confirm_template_selections, last_call, confirmed,
                   raised, session, progress, localVars, caller, returned, view, rerun>>

\* Lines 687-703: display_results(argument) with the session as it stands.
call_display_results ==
    /\ pc = "picked"
    /\ view' = display_results("results", argument, results, processor)
    /\ pc' = "results_done"
    /\ UNCHANGED <<uploaded, processor, results, stages, sessionChoiceVars, progress,
                   localVars, caller, returned, rerun>>

NextResults == pick_results \/ call_display_results

SpecResults == InitResults /\ [][NextResults]_vars

update_progress(sess, prog, current, total, message, stage_details) ==
    IF "progress" \notin DOMAIN sess THEN prog
    ELSE [current |-> current,
          total |-> total,
          message |-> message,
          start_time |-> prog.start_time,
          complete |-> (prog.complete \/ (current >= total /\ total > 0)),
          stage_details |-> IF stage_details # None
                            THEN Detail("given", None) ELSE prog.stage_details]

\* The indices and totals update_progress is called with.
UpdateIndices == -1..(MaxTotal + 1)
UpdateTotals == 0..MaxTotal

InitUpdate ==
    /\ InitSession
    /\ results = <<>>
    /\ processor = "P"
    /\ image_paths = <<>>
    /\ caller = "unit"
    /\ pc = "update"
    /\ rerun = FALSE

call_update_progress ==
    /\ pc \in {"update", "shown"}
    /\ \E c \in UpdateIndices, t \in UpdateTotals, d \in {None, 1} :
          progress' = update_progress(session, progress, c, t, <<"msg", 0>>, d)
    /\ pc' = "update"
    /\ UNCHANGED <<uploaded, processor, results, stages, sessionChoiceVars,
                   localVars, caller, returned, view, rerun>>

\* display_progress after an update.
show_progress ==
    /\ pc = "update"
    /\ view' = display_progress(session, progress)
    /\ pc' = "shown"
    /\ UNCHANGED <<uploaded, processor, results, stages, sessionChoiceVars, progress,
                   localVars, caller, returned, rerun>>

NextUpdate == call_update_progress \/ show_progress

SpecUpdate == InitUpdate /\ [][NextUpdate]_vars

\* ------------------------------------------------- claims on the progress state
\* C21: in every reachable session state progress.complete implies
\* progress.current = progress.total (every operation that sets the flag
\* leaves current equal to total).
C21_CompleteMeansAll ==
    progress.complete => progress.current = progress.total

\* The images of the running batch whose pipeline has ended: image i + 1 has
\* succeeded once process_single_image has returned (the sleep of line 240)
\* and has failed once the per-image handler has run (the sleep of line 263).
TerminalCount ==
    IF pc \in {"append", "skip"} THEN i + 1
    ELSE IF pc = "returned" THEN Len(image_paths)
    ELSE i

\* C22: at every suspension point of process_images and at its end,
\* progress.current is the number of images that have reached a terminal
\* state (succeeded or failed).
C22_CurrentCountsTerminal ==
    (pc \in {"call", "append", "skip"} \/ BatchDone) =>
        progress.current = TerminalCount

\* C23: after any sequence of progress updates 0 <= current <= total (an
\* out-of-range index is clamped, not stored), and the fraction display_progress
\* shows is within [0, 1].
C23_ProgressInRange ==
    /\ 0 <= progress.current
    /\ progress.current <= progress.total
    /\ (pc = "shown" /\ view.bar) =>
          (0 <= view.value[1] /\ view.value[1] <= view.value[2])

\* A step of the batch loop in which the image at hand fails.
ImageFails ==
    \/ pc = "begin" /\ image_paths[i + 1].outcome = "badpath"
    \/ pc = "call" /\ image_paths[i + 1].outcome = "raise"

Extended(r, t) == [r EXCEPT !.user_selected_template = t]

\* C25: the confirm action changes no field of a result other than
\* user_selected_template, and leaves the length, membership and order of
\* the stored result list unchanged.
C25_ConfirmOnlyExtends ==
    [][/\ Len(results') = Len(results)
       /\ \A k \in 1..Len(results) :
             results'[k] = Extended(results[k], results'[k].user_selected_template)
      ]_vars

C25_Witness ==
    /\ confirmed
    /\ last_call.button
    /\ Len(results) = 2
    /\ results[1].image_name # results[2].image_name
    /\ results[2].user_selected_template # None
    /\ results[2].user_selected_template # results[2].selected_template
    /\ results[2].selected_stylist = <<"stylist", results[2].image_name>>

\* ------------------------------------------- claims on the stage updates
\* Lines 175-181: the processing_stages list has five entries.
NumStages == 5

\* The last stage a detail text reports for its image: the update of lines
\* 212-216 names stage 1 as current, the update of lines 233-236 lists all
\* stages as finished; the other texts name no stage.
StageOf(detail) ==
    IF detail.kind = "stage" THEN 1
    ELSE IF detail.kind = "finished" THEN NumStages
    ELSE 0

\* The image the batch loop is working on.
CurrentImage == image_paths[i + 1].name

\* C26: for each image the progress state receives one update per stage
\* transition, in the fixed stage order, and every update's detail text names
\* the image being processed at that moment, also the update written when
\* that image fails.
C26_StageUpdates ==
    /\ [](pc \in {"call", "append", "skip"} =>
             progress.stage_details.image = CurrentImage)
    /\ [][(/\ pc \in {"begin", "call"}
           /\ StageOf(progress'.stage_details) > StageOf(progress.stage_details)
           /\ progress'.stage_details.image = CurrentImage)
              => StageOf(progress'.stage_details) = StageOf(progress.stage_details) + 1
         ]_vars

\* ------------------------------------------- claims on the stage record
\* The stage record as main() reads it (a missing key reads as False).
StageTuple ==
    <<StageGet(stages, "processing_done", FALSE),
      StageGet(stages, "template_selection_done", FALSE),
      StageGet(stages, "results_display_done", FALSE)>>
StageChain ==
    {<<FALSE, FALSE, FALSE>>, <<TRUE, FALSE, FALSE>>, <<TRUE, TRUE, FALSE>>,
     <<TRUE, TRUE, TRUE>>}

\* C27: in every reachable session state the stage record is (F,F,F),
\* (T,F,F), (T,T,F) or (T,T,T), and no flag ever goes from true back to false.
C27_StageRecord ==
    /\ [](StageTuple \in StageChain)
    /\ [][StageNotEarlier]_vars

C27_Witness ==
    /\ Idle
    /\ StageTuple = <<TRUE, TRUE, TRUE>>
    /\ uploaded # <<>>
    /\ view.screen = "results"
    /\ confirmed

\* ------------------------------------------------- claims on the workflow
\* C28: in every reachable session state in which files are uploaded and the
\* stored result list is empty, the process-images action is offered, so a
\* batch can eventually be processed.
C28_ProcessOffered ==
    (Idle /\ uploaded # <<>> /\ results = <<>>) =>
        (view.screen = "process_button" /\ ENABLED press_process)

\* A run of main() in which the confirm button is pressed.
ConfirmPressed == pc = "idle" /\ pc' = "idle" /\ Selecting /\ last_call'.button
\* A step that sets template_selection_done.
Finalizes ==
    /\ ~StageGet(stages, "template_selection_done", FALSE)
    /\ StageGet(stages', "template_selection_done", FALSE)

\* C29: the confirm flag is set only by pressing the confirm button; each
\* press is consumed by the same run of main(), which sets
\* template_selection_done, resets the flag and requests a rerun; the flag is
\* false at the end of every run, so nothing but a press finalizes a batch.
C29_ConfirmHandshake ==
    /\ [](pc = "idle" => ~confirm_template_selections)
    /\ [][ConfirmPressed =>
             /\ StageTuple' = <<TRUE, TRUE, FALSE>>
             /\ ~confirm_template_selections'
             /\ rerun']_vars
    /\ [][Finalizes => ConfirmPressed]_vars

C29_Witness ==
    /\ pc = "idle"
    /\ rerun
    /\ last_call.button
    /\ confirmed
    /\ StageTuple = <<TRUE, TRUE, FALSE>>
    /\ ~confirm_template_selections
    /\ results # <<>>

\* ------------------------- several batches and choice screens in one session
\* The path lists of the batches: files named styleimg_1, styleimg_2, ... that
\* the processor succeeds or fails on.
BatchInputs == UNION {PathLists(n, {"ok", "raise"}) : n \in 1..MaxUpload}

InitBatches ==
    /\ InitSession
    /\ results = <<>>
    /\ processor = "P"
    /\ image_paths \in BatchInputs
    /\ caller = "unit"
    /\ pc = "start"
    /\ rerun = FALSE

\* Lines 1648-1651: the list process_images returned is stored in the session.
store_results ==
    /\ pc = "returned"
    /\ results' = returned
    /\ view' = NoView
    /\ pc' = "choices"
    /\ UNCHANGED <<uploaded, processor, stages, sessionChoiceVars, progress,
                   localVars, caller, returned, rerun>>

\* Another batch in the same session: handle_image_upload names its files
\* styleimg_1, styleimg_2, ... again (line 1489).
next_batch ==
    /\ pc = "choices"
    /\ image_paths' \in BatchInputs
    /\ pc' = "start"
    /\ UNCHANGED <<uploaded, processor, results, stages, sessionChoiceVars, progress,
                   i, acc, image_name, result, caller, returned, view, rerun>>

NextBatches ==
    \/ call_process_images
    \/ process_images_begin
    \/ process_images_call
    \/ process_images_append
    \/ process_images_skip
    \/ store_results
    \/ call_display_template_choices
    \/ next_batch

SpecBatches == InitBatches /\ [][NextBatches]_vars

\* The templates of a choice list.
Range(seq) == {seq[k] : k \in 1..Len(seq)}

====
